---------------------------- MODULE Spec2Model ----------------------------
(***************************************************************************)
(* State-machine model of the map-vision-spy frontend: the Home page       *)
(* (capture, preview, detection request, capture history, Save Image       *)
(* compositing) and the MapView component that owns the Mapbox map and     *)
(* keeps the detection overlay on it.                                      *)
(*                                                                         *)
(* Every nullable value of the program is a record here, so that it can    *)
(* be compared with Null.  Strings that the program concatenates or        *)
(* parses (colours) are sequences of one-character strings.                *)
(***************************************************************************)
EXTENDS Integers, Sequences, FiniteSets, TLC

VARIABLES
    token,            \* process.env.NEXT_PUBLIC_MAPBOX_TOKEN
    mounted,          \* MapView's mount effect has run
    mapCreated,       \* MapView: map.current # null
    mapLoaded,        \* MapView: mapLoaded state
    mapError,         \* MapView: mapError state
    mapCenter,        \* the Mapbox map's centre (environment)
    mapZoom,          \* the Mapbox map's zoom, map.getZoom() (environment)
    mapRef,           \* Home: mapRef.current # null (and the map state)
    prompts,          \* Home: prompts state
    confidence,       \* Home: confidence state, in tenths
    isLoading,        \* Home: isLoading state
    detectionResults, \* Home: detectionResults state
    error,            \* Home: error state
    zoom,             \* Home: zoom state
    previewImage,     \* Home: previewImage state
    previewBounds,    \* Home: previewBounds state
    showPreview,      \* Home: showPreview state
    capturedImages,   \* Home: capturedImages state
    pending,          \* detectObjects calls that have neither resolved nor rejected
    posts,            \* number of POST /api/detect requests issued so far
    mapSource,        \* the map's 'detection-results' source (Null when it has none)
    mapLayers,        \* the ids of the map's layers that use that source
    hasCleanup,       \* the overlay effect's last run returned its cleanup
    mapFaults,        \* the errors the map's style has raised so far
    download,         \* the file the last step saved (Null when it saved none)
    lastOp,           \* the handler that ran last and how it ended
    cv                \* inputs and result of the coordinate conversion under test

vars == <<token, mounted, mapCreated, mapLoaded, mapError, mapCenter, mapZoom,
          mapRef, prompts, confidence, isLoading, detectionResults, error, zoom,
          previewImage, previewBounds, showPreview, capturedImages, pending,
          posts, mapSource, mapLayers, hasCleanup, mapFaults, download, lastOp,
          cv>>

mapVars  == <<token, mounted, mapCreated, mapLoaded, mapError, mapRef>>
overlayVars == <<mapSource, mapLayers, hasCleanup, mapFaults>>
viewVars == <<mapCenter, mapZoom>>

(***************************************************************************)
(* Bounds of the model.                                                    *)
(***************************************************************************)
MaxPosts   == 2    \* detection requests issued in one run
MaxPrompts == 2    \* length of the prompt list
MaxCoord   == 2    \* coordinates of the conversion inputs range over 0..MaxCoord
MaxSize    == 2    \* image sizes of the conversion inputs range over 1..MaxSize

(***************************************************************************)
(* Values.                                                                 *)
(***************************************************************************)
Null == [null |-> TRUE]

\* Colour strings, as sequences of characters.
Green    == <<"#", "0", "0", "F", "F", "0", "0">>
Pink     == <<"#", "F", "F", "6", "9", "B", "4">>
Red      == <<"#", "F", "F", "0", "0", "0", "0">>
Black    == <<"#", "0", "0", "0">>
CanvasDefaultStyle == <<"#", "0", "0", "0", "0", "0", "0">>
White    == <<"#", "f", "f", "f">>
PanelInk == <<"r", "g", "b", "a", "(", "0", ",", "0", ",", "0", ",", "0", ".", "7", ")">>
NoHash   == <<"0", "0", "F", "F", "0", "0">>
NoColor  == << >>
Alpha66  == <<"6", "6">>

Blue     == <<"#", "0", "0", "0", "0", "F", "F">>
Yellow   == <<"#", "F", "F", "F", "F", "0", "0">>
Magenta  == <<"#", "F", "F", "0", "0", "F", "F">>

DEFAULT_COLORS == <<Pink, Green, Red, Blue, Yellow, Magenta>>

HexDigits == {"0", "1", "2", "3", "4", "5", "6", "7", "8", "9",
              "a", "b", "c", "d", "e", "f", "A", "B", "C", "D", "E", "F"}

\* Whether the canvas accepts the string as a CSS colour: #rgb, #rgba, #rrggbb,
\* #rrggbbaa, or the one functional notation the page uses.
IsCssColor(s) ==
    \/ s = PanelInk
    \/ /\ Len(s) \in {4, 5, 7, 9}
       /\ s[1] = "#"
       /\ \A i \in 2..Len(s) : s[i] \in HexDigits

\* String.prototype.trim on the texts of the model.
Trim(t) == IF t = " " THEN "" ELSE t

\* What the user types into a prompt's text box, and picks in its colour box.
TypedTexts   == {" ", "cars"}
PickedColors == {Red}

InitialPrompts == << [text |-> "trees", color |-> Green],
                     [text |-> "buildings", color |-> Pink] >>

(***************************************************************************)
(* JavaScript numbers, without rounding: a finite number is a reduced      *)
(* fraction n/d with d > 0; a division by zero gives an infinity or NaN.   *)
(***************************************************************************)
RECURSIVE Gcd(_, _)
Gcd(a, b) == IF b = 0 THEN a ELSE Gcd(b, a % b)

Abs(a) == IF a < 0 THEN -a ELSE a
Sign(a) == IF a < 0 THEN -1 ELSE IF a > 0 THEN 1 ELSE 0

NaN == [k |-> "nan"]
Inf(s) == [k |-> "inf", s |-> s]
Frac(n, d) ==
    LET g == Gcd(Abs(n), Abs(d))
        sg == IF d < 0 THEN -1 ELSE 1
    IN  [k |-> "fin", n |-> sg * (n \div g), d |-> sg * (d \div g)]
Num(i) == [k |-> "fin", n |-> i, d |-> 1]

IsFinite(a) == a.k = "fin"
SignOf(a) == IF a.k = "fin" THEN Sign(a.n) ELSE a.s

NumAdd(a, b) ==
    IF a.k = "nan" \/ b.k = "nan" THEN NaN
    ELSE IF a.k = "inf" /\ b.k = "inf" THEN (IF a.s = b.s THEN a ELSE NaN)
    ELSE IF a.k = "inf" THEN a
    ELSE IF b.k = "inf" THEN b
    ELSE Frac(a.n * b.d + b.n * a.d, a.d * b.d)

NumNeg(a) ==
    IF a.k = "nan" THEN NaN
    ELSE IF a.k = "inf" THEN Inf(-a.s)
    ELSE Frac(-a.n, a.d)

NumSub(a, b) == NumAdd(a, NumNeg(b))

NumMul(a, b) ==
    IF a.k = "nan" \/ b.k = "nan" THEN NaN
    ELSE IF a.k = "inf" \/ b.k = "inf"
         THEN (IF SignOf(a) = 0 \/ SignOf(b) = 0 THEN NaN ELSE Inf(SignOf(a) * SignOf(b)))
    ELSE Frac(a.n * b.n, a.d * b.d)

NumDiv(a, b) ==
    IF a.k = "nan" \/ b.k = "nan" THEN NaN
    ELSE IF a.k = "inf" THEN (IF b.k = "inf" THEN NaN
                              ELSE Inf(a.s * (IF SignOf(b) < 0 THEN -1 ELSE 1)))
    ELSE IF b.k = "inf" THEN Num(0)
    ELSE IF b.n = 0 THEN (IF a.n = 0 THEN NaN ELSE Inf(Sign(a.n)))
    ELSE Frac(a.n * b.d, a.d * b.n)

(***************************************************************************)
(* The Mapbox map: its view, the bounds it reports and the picture its     *)
(* canvas holds.                                                           *)
(***************************************************************************)
InitialZoom == 17

DefaultCenter == [lng |-> 0, lat |-> 0]
Centers  == {DefaultCenter, [lng |-> 3, lat |-> 1]}
MapZooms == {InitialZoom, InitialZoom + 1}

\* Half the extent of the visible region, in the model's degrees.
HalfSpan(z) == IF z = InitialZoom THEN 2 ELSE 1

\* map.getBounds(), as getMapBounds packs it.
getMapBounds(c, z) ==
    [north |-> c.lat + HalfSpan(z), south |-> c.lat - HalfSpan(z),
     east  |-> c.lng + HalfSpan(z), west  |-> c.lng - HalfSpan(z)]

\* canvas.toDataURL('image/png'): the picture of the view the canvas shows.
CanvasWidth  == 4
CanvasHeight == 2
toDataURL(c, z) == [center |-> c, zoom |-> z, width |-> CanvasWidth, height |-> CanvasHeight]

\* The message of the exception canvas.toDataURL throws ("" when it has none).
ThrowMessages == {"Tainted canvases may not be exported.", ""}

Tokens == {"", "your_mapbox_token_here", "pk.token"}

(***************************************************************************)
(* The detection service.                                                  *)
(***************************************************************************)
\* The outer ring a feature covers: the whole requested region.
Ring(b) == << <<b.west, b.north>>, <<b.east, b.north>>,
              <<b.east, b.south>>, <<b.west, b.south>>, <<b.west, b.north>> >>

Feature(type, color, b) ==
    [geometry   |-> [type |-> type,
                     coordinates |-> IF type = "Polygon" THEN <<Ring(b)>>
                                     ELSE << <<Ring(b)>>, <<Ring(b)>> >>],
     properties |-> [color |-> color]]

\* The shapes of the FeatureCollections the service answers with: the type and
\* the colour of each feature, in order.
ResponseShapes ==
    { << >>,
      << [type |-> "Polygon", color |-> Green] >>,
      << [type |-> "Polygon", color |-> NoColor] >>,
      << [type |-> "Polygon", color |-> Green], [type |-> "MultiPolygon", color |-> NoHash] >> }

Response(shape, b) ==
    [type |-> "FeatureCollection",
     features |-> [i \in 1..Len(shape) |-> Feature(shape[i].type, shape[i].color, b)]]

\* The failures of axios.post: err.response?.data?.detail and err.message
\* ("" when absent).
Failures ==
    { [detail |-> "SAM3 model not loaded", message |-> "Request failed with status code 503"],
      [detail |-> "", message |-> "Network Error"],
      [detail |-> "", message |-> ""] }

Err(m) == [msg |-> m]
PromptError == Err(<<"Please add at least one prompt with text.">>)
CaptureError(m) == Err(<<"Failed to capture map image: ", IF m # "" THEN m ELSE "Unknown error">>)
DetectionError(f) ==
    Err(<<IF f.detail # "" THEN f.detail
          ELSE IF f.message # "" THEN f.message
          ELSE "Detection failed">>)

\* detectObjects: the request it posts.
detectObjects(image, apiPrompts, bounds, z, conf) ==
    [image |-> image, prompts |-> apiPrompts, bounds |-> bounds, zoom |-> z,
     confidence |-> conf]

\* ApiPrompts, were the prompts mapped without the filter.
ApiPromptsUnfiltered(ps) ==
    [i \in 1..Len(ps) |-> [text |-> ps[i].text, color |-> ps[i].color]]

\* prompts.filter((p) => p.text.trim()).map((p) => ({ text: p.text, color: p.color }))
ApiPrompts(ps) ==
    LET kept == SelectSeq(ps, LAMBDA p : Trim(p.text) # "")
    IN  [i \in 1..Len(kept) |-> [text |-> kept[i].text, color |-> kept[i].color]]

\* prompts.map(p => p.text)
PromptTexts(ps) == [i \in 1..Len(ps) |-> ps[i].text]

HistoryLimit == 10

\* PushCapture, were the last ten kept: [newCapture, ...prev].slice(-10)
PushCaptureKeepLast(c, prev) ==
    LET all == <<c>> \o prev
    IN  SubSeq(all, IF Len(all) < HistoryLimit THEN 1 ELSE Len(all) - HistoryLimit + 1,
               Len(all))

\* [newCapture, ...prev].slice(0, 10)
PushCapture(c, prev) ==
    LET all == <<c>> \o prev
    IN  SubSeq(all, 1, IF Len(all) < HistoryLimit THEN Len(all) ELSE HistoryLimit)

Remove(s, i) == SubSeq(s, 1, i - 1) \o SubSeq(s, i + 1, Len(s))

\* The preview dialog is rendered, and covers the page.
ModalOpen == showPreview /\ previewImage # Null

(***************************************************************************)
(* Initial state: Home and MapView as constructed, before any effect.      *)
(***************************************************************************)
NoConversion == [phase |-> "none"]

HomeInit ==
    /\ mounted = FALSE
    /\ mapCreated = FALSE
    /\ mapLoaded = FALSE
    /\ mapError = Null
    /\ mapCenter = DefaultCenter
    /\ mapZoom = InitialZoom
    /\ mapRef = FALSE
    /\ prompts = InitialPrompts
    /\ confidence = 5
    /\ isLoading = FALSE
    /\ detectionResults = Null
    /\ error = Null
    /\ zoom = InitialZoom
    /\ previewImage = Null
    /\ previewBounds = Null
    /\ showPreview = FALSE
    /\ capturedImages = << >>
    /\ pending = << >>
    /\ posts = 0
    /\ mapSource = Null
    /\ mapLayers = {}
    /\ hasCleanup = FALSE
    /\ mapFaults = {}
    /\ download = Null
    /\ lastOp = [op |-> "none"]

Init ==
    /\ token \in Tokens
    /\ HomeInit
    /\ cv = NoConversion

homeVars == <<prompts, confidence, isLoading, detectionResults, error, zoom,
              previewImage, previewBounds, showPreview, capturedImages, pending,
              posts>>

\* A step that saves no file.
NoDownload == download' = Null

(***************************************************************************)
(* MapView: the detection overlay.  st is the part of the map's style the  *)
(* overlay effect works on: the 'detection-results' source, the layers     *)
(* that use it, and the errors the style has raised.                       *)
(***************************************************************************)
sourceId  == "detection-results"
layerId   == "detection-layer"
outlineId == "detection-layer-outline"

Style(source, layers, faults) == [source |-> source, layers |-> layers, faults |-> faults]
Fault(st, m) == [st EXCEPT !.faults = @ \cup {m}]

\* map.getSource(sourceId), map.getLayer(id)
getSource(st) == st.source # Null
getLayer(st, id) == id \in st.layers

\* map.removeLayer(id)
removeLayer(st, id) ==
    IF id \in st.layers THEN [st EXCEPT !.layers = @ \ {id}]
    ELSE Fault(st, "removeLayer: no such layer")

\* map.removeSource(sourceId): refused while a layer uses the source.
removeSource(st) ==
    IF st.source = Null THEN Fault(st, "removeSource: no such source")
    ELSE IF st.layers # {} THEN Fault(st, "removeSource: source in use")
    ELSE [st EXCEPT !.source = Null]

\* map.addSource(sourceId, {type: 'geojson', data}), where the id is free.
addSource(st, data) == [st EXCEPT !.source = [id |-> sourceId, data |-> data]]

\* map.addLayer({id, source: sourceId, ...})
addLayer(st, id) ==
    IF id \in st.layers THEN Fault(st, "addLayer: layer exists")
    ELSE IF st.source = Null THEN Fault(st, "addLayer: no such source")
    ELSE [st EXCEPT !.layers = @ \cup {id}]

\* The body of the overlay effect, past its early return: it drops what it
\* finds of an earlier overlay, then adds the source and the two layers.
\* addSource throws when the id is taken, and the effect then returns no
\* cleanup.
OverlayBody(st, results) ==
    LET cleared == IF getSource(st)
                   THEN removeSource(IF getLayer(st, layerId)
                                     THEN removeLayer(st, layerId) ELSE st)
                   ELSE st
    IN  IF getSource(cleared)
        THEN [st |-> Fault(cleared, "addSource: source exists"), cleanup |-> FALSE]
        ELSE [st |-> addLayer(addLayer(addSource(cleared, results), layerId), outlineId),
              cleanup |-> TRUE]

\* OverlayCleanup, were it to leave the outline layer in place.
OverlayCleanupFillOnly(st) ==
    LET a == IF getLayer(st, layerId) THEN removeLayer(st, layerId) ELSE st
    IN  IF getSource(a) THEN removeSource(a) ELSE a

\* The cleanup the overlay effect returns.
OverlayCleanup(st) ==
    LET a == IF getLayer(st, layerId) THEN removeLayer(st, layerId) ELSE st
        b == IF getLayer(a, outlineId) THEN removeLayer(a, outlineId) ELSE a
    IN  IF getSource(b) THEN removeSource(b) ELSE b

\* The overlay effect after a render in which detectionResults or mapLoaded
\* changed (rerun): the cleanup of its last run, if that returned one, then
\* the effect on the new values.
OverlayEffect(results, loaded, rerun) ==
    IF ~rerun THEN UNCHANGED overlayVars
    ELSE LET st0 == Style(mapSource, mapLayers, mapFaults)
             st1 == IF hasCleanup THEN OverlayCleanup(st0) ELSE st0
             out == IF ~mapCreated \/ ~loaded \/ results = Null
                    THEN [st |-> st1, cleanup |-> FALSE]
                    ELSE OverlayBody(st1, results)
         IN  /\ mapSource' = out.st.source
             /\ mapLayers' = out.st.layers
             /\ mapFaults' = out.st.faults
             /\ hasCleanup' = out.cleanup

(***************************************************************************)
(* MapView.                                                                *)
(***************************************************************************)
\* MapViewInit, were the placeholder token taken for a token.
MapViewInitPlaceholderAccepted ==
    /\ ~mounted
    /\ mounted' = TRUE
    /\ IF token = ""
       THEN /\ mapError' = Err(<<"Mapbox token not found. Set NEXT_PUBLIC_MAPBOX_TOKEN in .env.local">>)
            /\ UNCHANGED mapCreated
       ELSE /\ mapError' = Null
            /\ mapCreated' = TRUE
    /\ lastOp' = [op |-> "MapViewInit"]
    /\ NoDownload
    /\ UNCHANGED <<token, mapLoaded, mapRef, viewVars, homeVars, overlayVars, cv>>

\* The mount effect: without a usable token it reports the error and creates
\* no map.
MapViewInit ==
    /\ ~mounted
    /\ mounted' = TRUE
    /\ IF token = "" \/ token = "your_mapbox_token_here"
       THEN /\ mapError' = Err(<<"Mapbox token not found. Set NEXT_PUBLIC_MAPBOX_TOKEN in .env.local">>)
            /\ UNCHANGED mapCreated
       ELSE /\ mapError' = Null
            /\ mapCreated' = TRUE
    /\ lastOp' = [op |-> "MapViewInit"]
    /\ NoDownload
    /\ UNCHANGED <<token, mapLoaded, mapRef, viewVars, homeVars, overlayVars, cv>>

\* The map's 'load' event: setMapLoaded(true) and onMapReady, which is
\* handleMapReady: it stores the map and subscribes to 'zoom'; the overlay
\* effect runs on the new mapLoaded.
MapLoad ==
    /\ mapCreated
    /\ ~mapLoaded
    /\ mapLoaded' = TRUE
    /\ mapRef' = TRUE
    /\ OverlayEffect(detectionResults, TRUE, TRUE)
    /\ lastOp' = [op |-> "MapLoad"]
    /\ NoDownload
    /\ UNCHANGED <<token, mounted, mapCreated, mapError, viewVars, homeVars, cv>>

\* The user (or a running flyTo) moves the loaded map.
MapMove(c) ==
    /\ mapLoaded
    /\ c # mapCenter
    /\ mapCenter' = c
    /\ lastOp' = [op |-> "MapMove"]
    /\ NoDownload
    /\ UNCHANGED <<mapVars, overlayVars, mapZoom, homeVars, cv>>

\* The loaded map zooms; the 'zoom' handler, which handleMapReady has
\* subscribed, copies map.getZoom() into the zoom state.
MapZoom(z) ==
    /\ mapLoaded
    /\ z # mapZoom
    /\ mapZoom' = z
    /\ zoom' = IF mapRef THEN z ELSE zoom
    /\ lastOp' = [op |-> "MapZoom"]
    /\ NoDownload
    /\ UNCHANGED <<mapVars, overlayVars, mapCenter, prompts, confidence, isLoading,
                   detectionResults, error, previewImage, previewBounds,
                   showPreview, capturedImages, pending, posts, cv>>

(***************************************************************************)
(* Home: capture and preview.                                              *)
(***************************************************************************)
\* handleDetect, were it to store the bounds as soon as it has read them,
\* before the canvas is read.
handleDetectEager(threw) ==
    /\ ~isLoading
    /\ IF ~mapRef
       THEN /\ lastOp' = [op |-> "handleDetect", result |-> "nomap"]
            /\ UNCHANGED <<previewImage, previewBounds, showPreview, error>>
       ELSE IF threw # Null
       THEN /\ previewBounds' = getMapBounds(mapCenter, mapZoom)
            /\ error' = CaptureError(threw.message)
            /\ lastOp' = [op |-> "handleDetect", result |-> "threw"]
            /\ UNCHANGED <<previewImage, showPreview>>
       ELSE /\ previewImage' = toDataURL(mapCenter, mapZoom)
            /\ previewBounds' = getMapBounds(mapCenter, mapZoom)
            /\ showPreview' = TRUE
            /\ lastOp' = [op |-> "handleDetect", result |-> "captured"]
            /\ UNCHANGED error
    /\ NoDownload
    /\ UNCHANGED <<mapVars, overlayVars, viewVars, prompts, confidence, isLoading,
                   detectionResults, zoom, capturedImages, pending, posts, cv>>

\* "Detect in View" (disabled while isLoading): reads the bounds and the canvas
\* and opens the preview; threw is the message of the exception toDataURL
\* throws, or Null when it does not throw.
handleDetect(threw) ==
    /\ ~isLoading
    /\ IF ~mapRef
       THEN /\ lastOp' = [op |-> "handleDetect", result |-> "nomap"]
            /\ UNCHANGED <<previewImage, previewBounds, showPreview, error>>
       ELSE IF threw # Null
       THEN /\ error' = CaptureError(threw.message)
            /\ lastOp' = [op |-> "handleDetect", result |-> "threw"]
            /\ UNCHANGED <<previewImage, previewBounds, showPreview>>
       ELSE /\ previewImage' = toDataURL(mapCenter, mapZoom)
            /\ previewBounds' = getMapBounds(mapCenter, mapZoom)
            /\ showPreview' = TRUE
            /\ lastOp' = [op |-> "handleDetect", result |-> "captured"]
            /\ UNCHANGED error
    /\ NoDownload
    /\ UNCHANGED <<mapVars, overlayVars, viewVars, prompts, confidence, isLoading,
                   detectionResults, zoom, capturedImages, pending, posts, cv>>

\* handleCancelPreview, were the bounds left in place.
handleCancelPreviewKeepBounds ==
    /\ ModalOpen
    /\ showPreview' = FALSE
    /\ previewImage' = Null
    /\ lastOp' = [op |-> "handleCancelPreview"]
    /\ NoDownload
    /\ UNCHANGED <<mapVars, overlayVars, viewVars, prompts, confidence, isLoading,
                   detectionResults, error, zoom, previewBounds, capturedImages,
                   pending, posts, cv>>

\* "Cancel", or a click on the dialog's backdrop.
handleCancelPreview ==
    /\ ModalOpen
    /\ showPreview' = FALSE
    /\ previewImage' = Null
    /\ previewBounds' = Null
    /\ lastOp' = [op |-> "handleCancelPreview"]
    /\ NoDownload
    /\ UNCHANGED <<mapVars, overlayVars, viewVars, prompts, confidence, isLoading,
                   detectionResults, error, zoom, capturedImages, pending, posts, cv>>

\* SelectCapture, were it to read the bounds from the map instead of the entry.
SelectCaptureMapBounds(i) ==
    /\ ~ModalOpen
    /\ i \in 1..Len(capturedImages)
    /\ LET capture == capturedImages[i]
       IN  /\ detectionResults' = IF capture.results # Null THEN capture.results
                                  ELSE detectionResults
           /\ previewImage' = capture.image
           /\ previewBounds' = getMapBounds(mapCenter, mapZoom)
           /\ showPreview' = TRUE
    /\ OverlayEffect(detectionResults', mapLoaded, detectionResults' # detectionResults)
    /\ lastOp' = [op |-> "SelectCapture"]
    /\ NoDownload
    /\ UNCHANGED <<mapVars, viewVars, prompts, confidence, isLoading, error, zoom,
                   capturedImages, pending, posts, cv>>

\* A click on entry i of "Recent Captures" (a div: the open dialog covers it).
\* The overlay effect runs when the entry's results replace other results.
SelectCapture(i) ==
    /\ ~ModalOpen
    /\ i \in 1..Len(capturedImages)
    /\ LET capture == capturedImages[i]
       IN  /\ detectionResults' = IF capture.results # Null THEN capture.results
                                  ELSE detectionResults
           /\ previewImage' = capture.image
           /\ previewBounds' = capture.bounds
           /\ showPreview' = TRUE
    /\ OverlayEffect(detectionResults', mapLoaded, detectionResults' # detectionResults)
    /\ lastOp' = [op |-> "SelectCapture"]
    /\ NoDownload
    /\ UNCHANGED <<mapVars, viewVars, prompts, confidence, isLoading, error, zoom,
                   capturedImages, pending, posts, cv>>

\* const detectionCount = detectionResults?.features.length || 0
detectionCount == IF detectionResults = Null THEN 0 ELSE Len(detectionResults.features)

\* handleClearResults, were it to empty the capture history as well.
handleClearResultsAndHistory ==
    /\ detectionCount > 0
    /\ detectionResults' = Null
    /\ capturedImages' = << >>
    /\ OverlayEffect(Null, mapLoaded, TRUE)
    /\ lastOp' = [op |-> "handleClearResults"]
    /\ NoDownload
    /\ UNCHANGED <<mapVars, viewVars, prompts, confidence, isLoading, error, zoom,
                   previewImage, previewBounds, showPreview, pending, posts, cv>>

\* "Clear Results" (rendered while the detection count is positive); the
\* overlay effect runs on the null results.
handleClearResults ==
    /\ detectionCount > 0
    /\ detectionResults' = Null
    /\ OverlayEffect(Null, mapLoaded, TRUE)
    /\ lastOp' = [op |-> "handleClearResults"]
    /\ NoDownload
    /\ UNCHANGED <<mapVars, viewVars, prompts, confidence, isLoading, error, zoom,
                   previewImage, previewBounds, showPreview, capturedImages,
                   pending, posts, cv>>

(***************************************************************************)
(* Home: detection requests.  A call of detectObjects stays in pending,     *)
(* with what its handler's closure holds, until it resolves or rejects.    *)
(***************************************************************************)
\* "Run Detection" in the preview dialog (disabled while isLoading).
handleConfirmDetection ==
    /\ ModalOpen
    /\ ~isLoading
    /\ IF previewImage = Null \/ previewBounds = Null
       THEN /\ lastOp' = [op |-> "handleConfirmDetection", result |-> "nopreview"]
            /\ UNCHANGED <<showPreview, isLoading, error, pending, posts>>
       ELSE /\ showPreview' = FALSE
            /\ isLoading' = TRUE
            /\ error' = Null
            /\ pending' = Append(pending,
                   [handler |-> "handleConfirmDetection",
                    request |-> detectObjects(previewImage, ApiPrompts(prompts),
                                              previewBounds, zoom, confidence),
                    image   |-> previewImage,
                    bounds  |-> previewBounds,
                    texts   |-> PromptTexts(prompts)])
            /\ posts' = posts + 1
            /\ lastOp' = [op |-> "handleConfirmDetection", result |-> "sent"]
    /\ NoDownload
    /\ UNCHANGED <<mapVars, overlayVars, viewVars, prompts, confidence, detectionResults, zoom,
                   previewImage, previewBounds, capturedImages, cv>>

\* window.__mapCapture, which MapView sets to handleCapture once the map is
\* loaded: it captures the canvas and the bounds and hands them to
\* handleImageCapture.  captureMapImage's promise is already settled when it
\* is awaited, so no map event runs between the two reads.
handleCapture(threw) ==
    /\ mapLoaded
    /\ IF threw # Null
       THEN /\ lastOp' = [op |-> "handleCapture", result |-> "threw"]
            /\ UNCHANGED <<isLoading, error, pending, posts>>
       ELSE IF ~mapRef \/ Len(prompts) = 0
               \/ \E i \in 1..Len(prompts) : Trim(prompts[i].text) = ""
       THEN /\ error' = PromptError
            /\ lastOp' = [op |-> "handleCapture", result |-> "noprompt"]
            /\ UNCHANGED <<isLoading, pending, posts>>
       ELSE /\ isLoading' = TRUE
            /\ error' = Null
            /\ pending' = Append(pending,
                   [handler |-> "handleImageCapture",
                    request |-> detectObjects(toDataURL(mapCenter, mapZoom),
                                              ApiPrompts(prompts),
                                              getMapBounds(mapCenter, mapZoom),
                                              zoom, confidence),
                    image   |-> toDataURL(mapCenter, mapZoom),
                    bounds  |-> getMapBounds(mapCenter, mapZoom),
                    texts   |-> PromptTexts(prompts)])
            /\ posts' = posts + 1
            /\ lastOp' = [op |-> "handleCapture", result |-> "sent"]
    /\ NoDownload
    /\ UNCHANGED <<mapVars, overlayVars, viewVars, prompts, confidence, detectionResults, zoom,
                   previewImage, previewBounds, showPreview, capturedImages, cv>>

\* DetectResolve, were the entry built from the preview state of the moment
\* the call resolves.
DetectResolveFromState(i, shape) ==
    /\ i \in 1..Len(pending)
    /\ LET call    == pending[i]
           results == Response(shape, call.request.bounds)
       IN  /\ detectionResults' = results
           /\ capturedImages' =
                IF call.handler = "handleConfirmDetection"
                THEN PushCapture([image |-> previewImage,
                                  bounds |-> previewBounds,
                                  prompts |-> call.texts,
                                  detectionCount |-> Len(results.features),
                                  results |-> results], capturedImages)
                ELSE capturedImages
           /\ lastOp' = [op |-> "DetectResolve", handler |-> call.handler]
    /\ isLoading' = FALSE
    /\ pending' = Remove(pending, i)
    /\ OverlayEffect(detectionResults', mapLoaded, TRUE)
    /\ NoDownload
    /\ UNCHANGED <<mapVars, viewVars, prompts, confidence, error, zoom,
                   previewImage, previewBounds, showPreview, posts, cv>>

\* The i-th pending call resolves with the service's answer: the rest of its
\* handler's try block, then finally; the answer is a new object, so the
\* overlay effect runs.
DetectResolve(i, shape) ==
    /\ i \in 1..Len(pending)
    /\ LET call    == pending[i]
           results == Response(shape, call.request.bounds)
       IN  /\ detectionResults' = results
           /\ capturedImages' =
                IF call.handler = "handleConfirmDetection"
                THEN PushCapture([image |-> call.image,
                                  bounds |-> call.bounds,
                                  prompts |-> call.texts,
                                  detectionCount |-> Len(results.features),
                                  results |-> results], capturedImages)
                ELSE capturedImages
           /\ lastOp' = [op |-> "DetectResolve", handler |-> call.handler]
    /\ isLoading' = FALSE
    /\ pending' = Remove(pending, i)
    /\ OverlayEffect(detectionResults', mapLoaded, TRUE)
    /\ NoDownload
    /\ UNCHANGED <<mapVars, viewVars, prompts, confidence, error, zoom,
                   previewImage, previewBounds, showPreview, posts, cv>>

\* DetectReject, were the catch block to drop the results on display.
DetectRejectClearing(i, f) ==
    /\ i \in 1..Len(pending)
    /\ error' = DetectionError(f)
    /\ detectionResults' = Null
    /\ isLoading' = FALSE
    /\ pending' = Remove(pending, i)
    /\ OverlayEffect(Null, mapLoaded, detectionResults # Null)
    /\ lastOp' = [op |-> "DetectReject", handler |-> pending[i].handler, failure |-> f]
    /\ NoDownload
    /\ UNCHANGED <<mapVars, viewVars, prompts, confidence, zoom,
                   previewImage, previewBounds, showPreview, capturedImages, posts,
                   cv>>

\* The i-th pending call rejects: the handler's catch block, then finally.
DetectReject(i, f) ==
    /\ i \in 1..Len(pending)
    /\ error' = DetectionError(f)
    /\ isLoading' = FALSE
    /\ pending' = Remove(pending, i)
    /\ lastOp' = [op |-> "DetectReject", handler |-> pending[i].handler, failure |-> f]
    /\ NoDownload
    /\ UNCHANGED <<mapVars, overlayVars, viewVars, prompts, confidence, detectionResults, zoom,
                   previewImage, previewBounds, showPreview, capturedImages, posts, cv>>

(***************************************************************************)
(* PromptInput and the confidence slider.                                  *)
(***************************************************************************)
\* "+ Add prompt"
addPrompt ==
    /\ Len(prompts) < MaxPrompts
    /\ prompts' = Append(prompts,
           [text |-> "", color |-> DEFAULT_COLORS[(Len(prompts) % Len(DEFAULT_COLORS)) + 1]])
    /\ lastOp' = [op |-> "addPrompt"]
    /\ NoDownload
    /\ UNCHANGED <<mapVars, overlayVars, viewVars, confidence, isLoading, detectionResults,
                   error, zoom, previewImage, previewBounds, showPreview,
                   capturedImages, pending, posts, cv>>

\* The "x" of prompt i (prompt ids are distinct, so the filter drops just it).
removePrompt(i) ==
    /\ i \in 1..Len(prompts)
    /\ prompts' = Remove(prompts, i)
    /\ lastOp' = [op |-> "removePrompt"]
    /\ NoDownload
    /\ UNCHANGED <<mapVars, overlayVars, viewVars, confidence, isLoading, detectionResults,
                   error, zoom, previewImage, previewBounds, showPreview,
                   capturedImages, pending, posts, cv>>

\* Typing into the text box, or picking in the colour box, of prompt i.
updatePrompt(i, updates) ==
    /\ i \in 1..Len(prompts)
    /\ prompts' = [prompts EXCEPT ![i] =
           [text  |-> IF "text" \in DOMAIN updates THEN updates.text ELSE @.text,
            color |-> IF "color" \in DOMAIN updates THEN updates.color ELSE @.color]]
    /\ prompts' # prompts
    /\ lastOp' = [op |-> "updatePrompt"]
    /\ NoDownload
    /\ UNCHANGED <<mapVars, overlayVars, viewVars, confidence, isLoading, detectionResults,
                   error, zoom, previewImage, previewBounds, showPreview,
                   capturedImages, pending, posts, cv>>

\* The slider: min 0.1, max 0.9, step 0.1, disabled while isLoading.
SliderValues == 1..9

onConfidenceChange(v) ==
    /\ ~isLoading
    /\ v \in SliderValues
    /\ v # confidence
    /\ confidence' = v
    /\ lastOp' = [op |-> "onConfidenceChange"]
    /\ NoDownload
    /\ UNCHANGED <<mapVars, overlayVars, viewVars, prompts, isLoading, detectionResults, error,
                   zoom, previewImage, previewBounds, showPreview, capturedImages,
                   pending, posts, cv>>

(***************************************************************************)
(* Coordinate conversion.                                                  *)
(***************************************************************************)
\* A call that returned v (the conversions of the program throw nothing).
Returned(v) == [threw |-> Null, value |-> v]

\* geoToPixel, were y measured from the south edge.
geoToPixelFromSouth(lng, lat, b, w, h) ==
    [x |-> NumMul(NumDiv(NumSub(lng, Num(b.west)), NumSub(Num(b.east), Num(b.west))), Num(w)),
     y |-> NumMul(NumDiv(NumSub(lat, Num(b.south)), NumSub(Num(b.north), Num(b.south))), Num(h))]

\* handleSaveImage's geoToPixel, on previewBounds b and a w x h canvas.
geoToPixel(lng, lat, b, w, h) ==
    [x |-> NumMul(NumDiv(NumSub(lng, Num(b.west)), NumSub(Num(b.east), Num(b.west))), Num(w)),
     y |-> NumMul(NumDiv(NumSub(Num(b.north), lat), NumSub(Num(b.north), Num(b.south))), Num(h))]

\* The linear pixelToGeo of the design:
\*   lng = west + (x / width) * (east - west)
\*   lat = north - (y / height) * (north - south)
pixelToGeo(x, y, b, w, h) ==
    [lng |-> NumAdd(Num(b.west), NumMul(NumDiv(x, Num(w)), NumSub(Num(b.east), Num(b.west)))),
     lat |-> NumSub(Num(b.north), NumMul(NumDiv(y, Num(h)), NumSub(Num(b.north), Num(b.south))))]

Degenerate(b) == b.west = b.east \/ b.north = b.south

(***************************************************************************)
(* Save Image: the canvas operations of the composite, in order.  ctx is   *)
(* the 2D context's fillStyle and strokeStyle; assigning a string that is  *)
(* not a colour leaves the style as it was.                                *)
(***************************************************************************)
SetStyle(cur, new) == IF IsCssColor(new) THEN new ELSE cur

\* moveTo / lineTo ignore a point with a coordinate that is not finite.
RECURSIVE PathOf(_, _, _, _)
PathOf(ring, b, w, h) ==
    IF ring = << >> THEN << >>
    ELSE LET pt == geoToPixel(Num(Head(ring)[1]), Num(Head(ring)[2]), b, w, h)
         IN  (IF IsFinite(pt.x) /\ IsFinite(pt.y) THEN <<pt>> ELSE << >>)
             \o PathOf(Tail(ring), b, w, h)

\* The outer rings a geometry is drawn from.
OuterRings(g) ==
    IF g.type = "Polygon" THEN <<g.coordinates[1]>>
    ELSE IF g.type = "MultiPolygon"
         THEN [i \in 1..Len(g.coordinates) |-> g.coordinates[i][1]]
    ELSE << >>

\* const color = feature.properties?.color || '#FF0000'
FeatureColor(f) == IF f.properties.color # NoColor THEN f.properties.color ELSE Red

\* The "Draw each feature" loop: the operations it adds and the context it
\* leaves.  Each polygon is noted with the colour string of its feature (of).
RECURSIVE DrawFeatures(_, _, _, _, _)
DrawFeatures(features, ctx, b, w, h) ==
    IF features = << >> THEN [ops |-> << >>, ctx |-> ctx]
    ELSE LET f     == Head(features)
             color == FeatureColor(f)
             ctx1  == [fillStyle   |-> SetStyle(ctx.fillStyle, color \o Alpha66),
                       strokeStyle |-> SetStyle(ctx.strokeStyle, color)]
             rings == OuterRings(f.geometry)
             mine  == [i \in 1..Len(rings) |->
                          [op |-> "polygon", of |-> f.properties.color,
                           path |-> PathOf(rings[i], b, w, h),
                           fill |-> ctx1.fillStyle, stroke |-> ctx1.strokeStyle,
                           lineWidth |-> 2]]
             rest  == DrawFeatures(Tail(features), ctx1, b, w, h)
         IN  [ops |-> mine \o rest.ops, ctx |-> rest.ctx]

\* DrawEntries, were the swatch drawn without setting the prompt's colour.
RECURSIVE DrawEntriesUnset(_, _, _)
DrawEntriesUnset(ps, i, fillStyle) ==
    IF i > Len(ps) THEN << >>
    ELSE <<[op |-> "entry", swatch |-> fillStyle,
            stroke |-> Black, text |-> ps[i].text, ink |-> White,
            y |-> 20 + (i - 1) * 25]>>
         \o DrawEntriesUnset(ps, i + 1, White)

\* prompts.forEach of the "Add legend" block: one swatch and one text per
\* prompt, the fill style being white after each text.
RECURSIVE DrawEntries(_, _, _)
DrawEntries(ps, i, fillStyle) ==
    IF i > Len(ps) THEN << >>
    ELSE <<[op |-> "entry", swatch |-> SetStyle(fillStyle, ps[i].color),
            stroke |-> Black, text |-> ps[i].text, ink |-> White,
            y |-> 20 + (i - 1) * 25]>>
         \o DrawEntries(ps, i + 1, White)

\* The "Add legend" block: the panel, then the entries.
DrawLegend(ps, ctx) ==
    LET panel == SetStyle(ctx.fillStyle, PanelInk)
    IN  <<[op |-> "panel", fill |-> panel, height |-> 25 * Len(ps) + 10]>>
        \o DrawEntries(ps, 1, panel)

\* capturedImages.find(c => c.image === previewImage)
FindCapture(caps, image) ==
    IF \E i \in 1..Len(caps) : caps[i].image = image
    THEN caps[CHOOSE i \in 1..Len(caps) :
                /\ caps[i].image = image
                /\ \A j \in 1..(i - 1) : caps[j].image # image]
    ELSE Null

\* const resultsToRender = capture?.results || detectionResults
ResultsToRender ==
    LET capture == FindCapture(capturedImages, previewImage)
    IN  IF capture # Null /\ capture.results # Null THEN capture.results
        ELSE detectionResults

Composite(results, ps, b, w, h) ==
    LET drawn == DrawFeatures(results.features,
                              [fillStyle |-> CanvasDefaultStyle,
                               strokeStyle |-> CanvasDefaultStyle], b, w, h)
    IN  drawn.ops \o DrawLegend(ps, drawn.ctx)

\* "Save Image" in the preview dialog.
handleSaveImage ==
    /\ ModalOpen
    /\ download' =
         IF ResultsToRender = Null \/ previewBounds = Null
         THEN [name |-> "map-capture", image |-> previewImage, ops |-> << >>]
         ELSE [name |-> "map-detection", image |-> previewImage,
               ops |-> Composite(ResultsToRender, prompts, previewBounds,
                                 previewImage.width, previewImage.height)]
    /\ lastOp' = [op |-> "handleSaveImage"]
    /\ UNCHANGED <<mapVars, overlayVars, viewVars, prompts, confidence, isLoading,
                   detectionResults, error, zoom, previewImage, previewBounds,
                   showPreview, capturedImages, pending, posts, cv>>

(***************************************************************************)
(* Sessions.  Each specification runs the page's handlers and the events   *)
(* of the map and the service; they differ in what the environment varies  *)
(* and in the number of detection requests a run issues.                   *)
(***************************************************************************)
PlainShapes == {shape \in ResponseShapes :
                  \A i \in 1..Len(shape) : shape[i].color = Green /\ shape[i].type = "Polygon"}
NetworkFailure == [detail |-> "", message |-> "Network Error"]
Tainted == [message |-> "Tainted canvases may not be exported."]

PromptEdits ==
    \/ addPrompt
    \/ \E i \in 1..MaxPrompts : removePrompt(i)
    \/ \E i \in 1..MaxPrompts, t \in TypedTexts : updatePrompt(i, [text |-> t])
    \/ \E i \in 1..MaxPrompts, c \in PickedColors : updatePrompt(i, [color |-> c])

\* The map moves and zooms; captures are previewed, cancelled, detected and
\* re-opened; the prompt list and the confidence keep their initial values.
Next ==
    \/ MapViewInit
    \/ MapLoad
    \/ \E c \in Centers : MapMove(c)
    \/ \E z \in MapZooms : MapZoom(z)
    \/ handleDetect(Null)
    \/ handleDetect(Tainted)
    \/ handleCancelPreview
    \/ \E i \in 1..HistoryLimit : SelectCapture(i)
    \/ handleClearResults
    \/ (posts < MaxPosts /\ handleConfirmDetection)
    \/ (posts < MaxPosts /\ handleCapture(Null))
    \/ \E i \in 1..MaxPosts, shape \in PlainShapes : DetectResolve(i, shape)
    \/ \E i \in 1..MaxPosts : DetectReject(i, NetworkFailure)

Spec == Init /\ [][Next]_vars

\* The map stays where it was created; the canvas and the service fail in
\* every way they can.
FailNext ==
    \/ MapViewInit
    \/ MapLoad
    \/ handleDetect(Null)
    \/ \E m \in ThrowMessages : handleDetect([message |-> m])
    \/ handleCancelPreview
    \/ \E i \in 1..HistoryLimit : SelectCapture(i)
    \/ handleClearResults
    \/ (posts < MaxPosts /\ handleConfirmDetection)
    \/ (posts < MaxPosts /\ handleCapture(Null))
    \/ (posts < MaxPosts /\ \E m \in ThrowMessages : handleCapture([message |-> m]))
    \/ \E i \in 1..MaxPosts, shape \in PlainShapes : DetectResolve(i, shape)
    \/ \E i \in 1..MaxPosts, f \in Failures : DetectReject(i, f)

SpecFail == Init /\ [][FailNext]_vars

\* The map stays where it was created and the service always answers, with
\* every shape of answer; prompts are edited before the first request, and
\* captures detected (at most MaxSaved of them), re-opened and saved.
MaxSaved == 1

SaveNext ==
    \/ MapViewInit
    \/ MapLoad
    \/ handleDetect(Null)
    \/ handleCancelPreview
    \/ \E i \in 1..HistoryLimit : SelectCapture(i)
    \/ (posts < MaxSaved /\ handleConfirmDetection)
    \/ \E i \in 1..MaxPosts, shape \in ResponseShapes : DetectResolve(i, shape)
    \/ (posts = 0 /\ PromptEdits)
    \/ handleSaveImage

SpecSave == Init /\ [][SaveNext]_vars

\* The coordinate conversions on their own: a bounding box and an image size
\* are given, and a pixel is taken to the map and back, or a point of the map
\* to the image.
ConvInit ==
    /\ token = "pk.token"
    /\ HomeInit
    /\ \E w \in 0..MaxCoord, e \in 0..MaxCoord, n \in 0..MaxCoord, so \in 0..MaxCoord,
          wd \in 1..MaxSize, ht \in 1..MaxSize :
         cv = [phase |-> "given",
               bbox |-> [north |-> n, south |-> so, east |-> e, west |-> w],
               width |-> wd, height |-> ht]

RoundTrip(x, y) ==
    /\ cv.phase = "given"
    /\ x \in 0..cv.width
    /\ y \in 0..cv.height
    /\ LET geo == pixelToGeo(Num(x), Num(y), cv.bbox, cv.width, cv.height)
       IN  cv' = [phase |-> "roundtrip", bbox |-> cv.bbox, width |-> cv.width,
                  height |-> cv.height, x |-> x, y |-> y, geo |-> geo,
                  back |-> Returned(geoToPixel(geo.lng, geo.lat, cv.bbox,
                                               cv.width, cv.height))]
    /\ UNCHANGED <<mapVars, overlayVars, viewVars, homeVars, download, lastOp>>

GeoToPixel(lng, lat) ==
    /\ cv.phase = "given"
    /\ cv' = [phase |-> "geoToPixel", bbox |-> cv.bbox, width |-> cv.width,
              height |-> cv.height, lng |-> lng, lat |-> lat,
              result |-> Returned(geoToPixel(Num(lng), Num(lat), cv.bbox,
                                             cv.width, cv.height))]
    /\ UNCHANGED <<mapVars, overlayVars, viewVars, homeVars, download, lastOp>>

ConvNext ==
    \/ \E x \in 0..MaxSize, y \in 0..MaxSize : RoundTrip(x, y)
    \/ \E lng \in 0..MaxCoord, lat \in 0..MaxCoord : GeoToPixel(lng, lat)

SpecConv == ConvInit /\ [][ConvNext]_vars

\* The map stays where it was created; the prompt list is edited, and then
\* detections (at most MaxSaved of them) are started from the preview dialog
\* or through window.__mapCapture.
PromptNext ==
    \/ MapViewInit
    \/ MapLoad
    \/ handleDetect(Null)
    \/ handleCancelPreview
    \/ (posts < MaxSaved /\ handleConfirmDetection)
    \/ (posts < MaxSaved /\ handleCapture(Null))
    \/ \E i \in 1..MaxPosts, shape \in PlainShapes : DetectResolve(i, shape)
    \/ \E i \in 1..MaxPosts : DetectReject(i, NetworkFailure)
    \/ (posts = 0 /\ PromptEdits)

SpecPrompts == Init /\ [][PromptNext]_vars

\* The map stays where it was created and the prompt list as initialised; the
\* confidence slider is moved between, and during, detections.
SliderNext ==
    \/ MapViewInit
    \/ MapLoad
    \/ handleDetect(Null)
    \/ handleCancelPreview
    \/ (posts < MaxPosts /\ handleConfirmDetection)
    \/ (posts < MaxPosts /\ handleCapture(Null))
    \/ \E i \in 1..MaxPosts, shape \in PlainShapes : DetectResolve(i, shape)
    \/ \E i \in 1..MaxPosts : DetectReject(i, NetworkFailure)
    \/ \E v \in SliderValues : onConfidenceChange(v)

SpecSlider == Init /\ [][SliderNext]_vars

\* The map stays where it was created; captures are detected one after the
\* other, MaxHistory of them, the service answering each with no feature or
\* with one.
MaxHistory == 11

HistoryNext ==
    \/ MapViewInit
    \/ MapLoad
    \/ handleDetect(Null)
    \/ (posts < MaxHistory /\ handleConfirmDetection)
    \/ \E shape \in PlainShapes : DetectResolve(1, shape)

SpecHistory == Init /\ [][HistoryNext]_vars

\* The map moves and zooms between captures; captures are previewed, cancelled,
\* detected (at most MaxSaved of them), re-opened from the history and saved,
\* the service answering with no feature or with one.
ViewsNext ==
    \/ MapViewInit
    \/ MapLoad
    \/ \E c \in Centers : MapMove(c)
    \/ \E z \in MapZooms : MapZoom(z)
    \/ handleDetect(Null)
    \/ handleCancelPreview
    \/ \E i \in 1..HistoryLimit : SelectCapture(i)
    \/ (posts < MaxSaved /\ handleConfirmDetection)
    \/ \E i \in 1..MaxPosts, shape \in PlainShapes : DetectResolve(i, shape)
    \/ \E i \in 1..MaxPosts : DetectReject(i, NetworkFailure)
    \/ handleSaveImage

SpecViews == Init /\ [][ViewsNext]_vars

(***************************************************************************)
(* Properties.                                                             *)
(***************************************************************************)
Requests == {pending[i].request : i \in 1..Len(pending)}
Captured == {capturedImages[i] : i \in 1..Len(capturedImages)}
Polygons(ops) == SelectSeq(ops, LAMBDA o : o.op = "polygon")
Entries(ops) == SelectSeq(ops, LAMBDA o : o.op = "entry")
Composited == download # Null /\ download.name = "map-detection"

\* C1: at most one detection request is in flight at any time: detectObjects
\* is never called while an earlier call has neither resolved nor rejected.
C1_AtMostOneInFlight == Len(pending) <= 1

\* C2: in every detection request and in every capturedImages entry, the
\* bounds are the bounds the map had in the capture step that produced the
\* image, whatever map moves, captures, cancels and history selections
\* happened since.
C2_ImageBoundsCorrespond ==
    /\ \A r \in Requests : r.bounds = getMapBounds(r.image.center, r.image.zoom)
    /\ \A c \in Captured : c.bounds = getMapBounds(c.image.center, c.image.zoom)

\* A request in flight for a capture of a view the map has left since, next to
\* a history entry of another view.
C2_Witness ==
    /\ Len(pending) = 1
    /\ pending[1].handler = "handleConfirmDetection"
    /\ pending[1].request.bounds # getMapBounds(mapCenter, mapZoom)
    /\ Len(capturedImages) = 1
    /\ capturedImages[1].image # pending[1].request.image

\* C3: the zoom sent in a detection request is the map's zoom at the moment
\* the request's image was captured.
C3_ZoomOfTheCapture == \A r \in Requests : r.zoom = r.image.zoom

\* C4: converting with a degenerate bounding box (west = east or north =
\* south) fails with a DegenerateBoundsError; geoToPixel returns no pixel
\* position for such bounds.
C4_DegenerateBoundsFail ==
    (cv.phase = "geoToPixel" /\ Degenerate(cv.bbox))
        => cv.result.threw = [name |-> "DegenerateBoundsError"]

C6_CornerMapping ==
    (cv.phase = "geoToPixel" /\ ~Degenerate(cv.bbox))
         => LET px == cv.result.value
            IN  /\ (cv.lng = cv.bbox.west /\ cv.lat = cv.bbox.north)
                      => px = [x |-> Num(0), y |-> Num(0)]
                /\ (cv.lng = cv.bbox.east /\ cv.lat = cv.bbox.south)
                      => px = [x |-> Num(cv.width), y |-> Num(cv.height)]
                /\ (cv.bbox.west < cv.bbox.east)
                      => /\ (cv.lng > cv.bbox.west) = (SignOf(px.x) > 0)
                         /\ (cv.lng < cv.bbox.west) = (SignOf(px.x) < 0)
                /\ (cv.bbox.south < cv.bbox.north)
                      => /\ (cv.lat < cv.bbox.north) = (SignOf(px.y) > 0)
                         /\ (cv.lat > cv.bbox.north) = (SignOf(px.y) < 0)

\* The south-east corner of a box, converted to the bottom-right pixel.
C6_Witness ==
    /\ cv.phase = "geoToPixel"
    /\ cv.bbox.west < cv.bbox.east
    /\ cv.bbox.south < cv.bbox.north
    /\ cv.lng = cv.bbox.east
    /\ cv.lat = cv.bbox.south
    /\ cv.result.value = [x |-> Num(cv.width), y |-> Num(cv.height)]
    /\ cv.width # cv.height

\* C7: every polygon of a feature whose colour string fails to parse is
\* filled with '#FF0000' at the reduced alpha and stroked with '#FF0000',
\* never with the colours of a feature drawn before it.
C7_UnparsableColourFallsBack ==
    Composited =>
        \A k \in 1..Len(download.ops) :
            LET o == download.ops[k]
            IN  (o.op = "polygon" /\ ~IsCssColor(o.of))
                    => (o.fill = Red \o Alpha66 /\ o.stroke = Red)

\* C8: the legend of a saved composite lists every prompt of the prompt
\* list once, in the list's order, each with its own colour and text,
\* whatever features were returned.
C8_LegendInPromptOrder ==
    Composited =>
        LET es == Entries(download.ops)
        IN  /\ Len(es) = Len(prompts)
            /\ \A i \in 1..Len(es) :
                  /\ es[i].swatch = prompts[i].color
                  /\ es[i].text = prompts[i].text

\* A composite of three polygons under a legend of two prompts of different
\* colours.
C8_Witness ==
    /\ Composited
    /\ Len(prompts) = 2
    /\ prompts[1].color # prompts[2].color
    /\ Len(Polygons(download.ops)) = 3
    /\ Len(Entries(download.ops)) = 2

\* C9: when reading the map canvas throws in Detect in View, the error
\* 'Failed to capture map image: ...' is set, the preview state is left as it
\* was and no detection request is sent.
C9_CaptureFailureReported ==
    [][(lastOp'.op = "handleDetect" /\ lastOp'.result = "threw")
          => /\ error' \in
                  {[msg |-> <<"Failed to capture map image: ",
                              "Tainted canvases may not be exported.">>],
                   [msg |-> <<"Failed to capture map image: ", "Unknown error">>]}
             /\ previewImage' = previewImage
             /\ previewBounds' = previewBounds
             /\ showPreview' = showPreview
             /\ pending' = pending
             /\ posts' = posts]_vars

\* A capture that failed after an earlier capture was detected: the earlier
\* preview image is still in place.
C9_Witness ==
    /\ lastOp.op = "handleDetect"
    /\ lastOp.result = "threw"
    /\ error = [msg |-> <<"Failed to capture map image: ", "Unknown error">>]
    /\ previewImage # Null
    /\ previewBounds # Null
    /\ Len(capturedImages) = 1

\* C10: each Run Detection issues exactly one POST; when it fails, the error
\* state is the service's detail, else the error's message, else 'Detection
\* failed', detectionResults and capturedImages are left as they were and no
\* further request is sent.
C10_FailureSurfacedOnce ==
    [][/\ (lastOp'.op = "handleConfirmDetection" /\ lastOp'.result = "sent")
            => (posts' = posts + 1 /\ Len(pending') = Len(pending) + 1)
       /\ (lastOp'.op = "DetectReject")
            => /\ error' = [msg |-> <<IF lastOp'.failure.detail # ""
                                      THEN lastOp'.failure.detail
                                      ELSE IF lastOp'.failure.message # ""
                                      THEN lastOp'.failure.message
                                      ELSE "Detection failed">>]
               /\ detectionResults' = detectionResults
               /\ capturedImages' = capturedImages
               /\ posts' = posts
               /\ Len(pending') = Len(pending) - 1]_vars

\* A Run Detection that failed with neither detail nor message, after an
\* earlier one succeeded: the earlier results are still on display.
C10_Witness ==
    /\ lastOp.op = "DetectReject"
    /\ lastOp.handler = "handleConfirmDetection"
    /\ error = [msg |-> <<"Detection failed">>]
    /\ detectionResults # Null
    /\ Len(capturedImages) = 1
    /\ pending = << >>

\* C11: isLoading is true exactly while a detection request is in flight: it
\* is set before the request is sent and reset when the request resolves or
\* rejects.
C11_LoadingBracketsRequest == isLoading = (pending # << >>)

\* C12: errors are transient: a successful capture by Detect in View, a
\* history selection, Clear Results and a successful detection each leave
\* the error state null.
C12_SuccessClearsError ==
    [][(\/ (lastOp'.op = "handleDetect" /\ lastOp'.result = "captured")
        \/ lastOp'.op = "SelectCapture"
        \/ lastOp'.op = "handleClearResults"
        \/ lastOp'.op = "DetectResolve")
          => error' = Null]_vars

\* The request the last step sent.
Sent(op) == op.op \in {"handleConfirmDetection", "handleCapture"} /\ op.result = "sent"
LastRequest(calls) == calls[Len(calls)].request

\* C13: the prompts of a detection request are the prompts of the prompt
\* list whose text is not blank, in the list's order, each with its text and
\* its colour; no prompt of a request has blank text.
C13_RequestPromptsNonBlank ==
    [][Sent(lastOp')
          => LET sent  == LastRequest(pending').prompts
                 kept  == {i \in 1..Len(prompts) : Trim(prompts[i].text) # ""}
                 at(k) == CHOOSE i \in kept : Cardinality({j \in kept : j <= i}) = k
             IN  /\ Len(sent) = Cardinality(kept)
                 /\ \A k \in 1..Len(sent) :
                       /\ Trim(sent[k].text) # ""
                       /\ sent[k] = [text  |-> prompts[at(k)].text,
                                     color |-> prompts[at(k)].color]]_vars

\* Run Detection with a prompt list of a blank prompt followed by a prompt
\* with text: the request carries the second prompt alone.
C13_Witness ==
    /\ lastOp = [op |-> "handleConfirmDetection", result |-> "sent"]
    /\ Len(prompts) = 2
    /\ Trim(prompts[1].text) = ""
    /\ Len(pending) = 1
    /\ pending[1].request.prompts = <<[text |-> prompts[2].text, color |-> prompts[2].color]>>

\* C14: a detection is started only when the prompt list has a prompt and no
\* prompt has blank text; otherwise Run Detection and window.__mapCapture
\* show 'Please add at least one prompt with text.', send no request and
\* leave isLoading as it was.
C14_DetectionNeedsPrompts ==
    [][LET usable  == /\ Len(prompts) > 0
                      /\ \A i \in 1..Len(prompts) : Trim(prompts[i].text) # ""
           attempt == \/ lastOp'.op = "handleConfirmDetection"
                      \/ (lastOp'.op = "handleCapture" /\ lastOp'.result # "threw")
       IN  (attempt /\ ~usable)
              => /\ error' = [msg |-> <<"Please add at least one prompt with text.">>]
                 /\ pending' = pending
                 /\ posts' = posts
                 /\ isLoading' = isLoading]_vars

\* C15: the confidence sent in every detection request lies in [0.1, 0.9]
\* (1..9 tenths): it starts at 0.5, changes only through the slider, and is
\* not changed while a request is in flight.
C15_ConfidenceInRange ==
    /\ confidence = 5
    /\ [][/\ \A i \in 1..Len(pending') : pending'[i].request.confidence \in 1..9
          /\ (confidence' # confidence)
                => /\ lastOp'.op = "onConfidenceChange"
                   /\ confidence' \in 1..9
                   /\ pending = << >>]_vars

\* C16: when NEXT_PUBLIC_MAPBOX_TOKEN is missing or is the placeholder
\* 'your_mapbox_token_here', no map is created, mapError is set by the mount
\* effect and stays set, onMapReady is never invoked, and no capture and no
\* detection request ever occurs.
C16_ConfigurationErrorBlocks ==
    (token = "" \/ token = "your_mapbox_token_here")
        => /\ ~mapCreated
           /\ ~mapLoaded
           /\ ~mapRef
           /\ mounted => mapError = [msg |-> <<"Mapbox token not found. Set NEXT_PUBLIC_MAPBOX_TOKEN in .env.local">>]
           /\ previewImage = Null
           /\ previewBounds = Null
           /\ ~showPreview
           /\ posts = 0
           /\ pending = << >>
           /\ detectionResults = Null
           /\ capturedImages = << >>

\* With the placeholder token, MapView is mounted and Detect in View has been
\* clicked: there is no map to capture.
C16_Witness ==
    /\ token = "your_mapbox_token_here"
    /\ mounted
    /\ mapError # Null
    /\ lastOp = [op |-> "handleDetect", result |-> "nomap"]
    /\ previewImage = Null

\* C17: Clear Results removes the overlay and nothing else: after it,
\* detectionResults is null, the detection count is 0 and the map holds none
\* of the 'detection-results' source, the 'detection-layer' layer and the
\* 'detection-layer-outline' layer; capturedImages, previewImage,
\* previewBounds, prompts and confidence are as before.
C17_ClearRemovesOverlayOnly ==
    [][lastOp'.op = "handleClearResults"
          => /\ detectionResults' = Null
             /\ detectionCount' = 0
             /\ mapSource' = Null
             /\ "detection-layer" \notin mapLayers'
             /\ "detection-layer-outline" \notin mapLayers'
             /\ capturedImages' = capturedImages
             /\ previewImage' = previewImage
             /\ previewBounds' = previewBounds
             /\ prompts' = prompts
             /\ confidence' = confidence]_vars

\* Clear Results after a detection whose capture is in the history and still
\* in the preview state: the map has lost the overlay, the history and the
\* preview are kept.
C17_Witness ==
    /\ lastOp.op = "handleClearResults"
    /\ detectionResults = Null
    /\ mapSource = Null
    /\ mapLayers = {}
    /\ Len(capturedImages) = 1
    /\ capturedImages[1].detectionCount = 1
    /\ previewImage = capturedImages[1].image

\* C18: capturedImages holds at most 10 entries; a successful Run Detection
\* puts its entry first and moves the others down by one in their order,
\* the tenth being dropped when there were ten; no other step changes the
\* history.
C18_HistoryBoundedNewestFirst ==
    [][/\ Len(capturedImages') <= 10
       /\ IF lastOp'.op = "DetectResolve" /\ lastOp'.handler = "handleConfirmDetection"
          THEN /\ Len(capturedImages') =
                     (IF Len(capturedImages) < 10 THEN Len(capturedImages) + 1 ELSE 10)
               /\ capturedImages'[1].results = detectionResults'
               /\ \A k \in 2..Len(capturedImages') :
                     capturedImages'[k] = capturedImages[k - 1]
          ELSE capturedImages' = capturedImages]_vars

\* The eleventh detection has succeeded: ten entries are kept, the newest,
\* with one feature, first; the oldest kept has none.
C18_Witness ==
    /\ posts = 11
    /\ pending = << >>
    /\ Len(capturedImages) = 10
    /\ lastOp.op = "DetectResolve"
    /\ capturedImages[1].detectionCount = 1
    /\ capturedImages[2].detectionCount = 0
    /\ capturedImages[10].detectionCount = 0
    /\ capturedImages[9].detectionCount = 1

\* C19: a history entry is added only when a detection request succeeds,
\* one per successful request, and it holds the image and the bounds sent in
\* that request, the response to that request as results, and detectionCount
\* equal to the number of features of the response, whatever happened to the
\* preview while the request was in flight.
C19_OneEntryPerSuccess ==
    [][IF lastOp'.op = "DetectResolve"
       THEN \E i \in 1..Len(pending) :
               /\ pending' = SubSeq(pending, 1, i - 1) \o SubSeq(pending, i + 1, Len(pending))
               /\ Len(capturedImages') =
                     (IF Len(capturedImages) < 10 THEN Len(capturedImages) + 1 ELSE 10)
               /\ \A k \in 2..Len(capturedImages') : capturedImages'[k] = capturedImages[k - 1]
               /\ capturedImages'[1].image = pending[i].request.image
               /\ capturedImages'[1].bounds = pending[i].request.bounds
               /\ capturedImages'[1].results = detectionResults'
               /\ capturedImages'[1].detectionCount = Len(detectionResults'.features)
       ELSE capturedImages' = capturedImages]_vars

\* C19, amended: a history entry is added only when a request started by Run
\* Detection succeeds, one per such request, and it holds the image and the
\* bounds sent in that request, the response to that request as results, and
\* detectionCount equal to the number of features of the response, whatever
\* happened to the preview while the request was in flight; a request started
\* through window.__mapCapture adds no entry.
C19_OneEntryPerRunDetection ==
    [][IF lastOp'.op = "DetectResolve" /\ lastOp'.handler = "handleConfirmDetection"
       THEN \E i \in 1..Len(pending) :
               /\ pending[i].handler = "handleConfirmDetection"
               /\ pending' = SubSeq(pending, 1, i - 1) \o SubSeq(pending, i + 1, Len(pending))
               /\ Len(capturedImages') =
                     (IF Len(capturedImages) < 10 THEN Len(capturedImages) + 1 ELSE 10)
               /\ \A k \in 2..Len(capturedImages') : capturedImages'[k] = capturedImages[k - 1]
               /\ capturedImages'[1].image = pending[i].request.image
               /\ capturedImages'[1].bounds = pending[i].request.bounds
               /\ capturedImages'[1].results = detectionResults'
               /\ capturedImages'[1].detectionCount = Len(detectionResults'.features)
       ELSE capturedImages' = capturedImages]_vars

\* A second Run Detection has succeeded after the user re-opened the first
\* capture, of another view, from the history while the request was in
\* flight: the new entry holds the second capture, not the previewed one.
C19_Witness ==
    /\ lastOp = [op |-> "DetectResolve", handler |-> "handleConfirmDetection"]
    /\ Len(capturedImages) = 2
    /\ previewImage = capturedImages[2].image
    /\ capturedImages[1].image # capturedImages[2].image
    /\ capturedImages[1].bounds # capturedImages[2].bounds
    /\ capturedImages[1].detectionCount = 1
    /\ capturedImages[2].detectionCount = 0

\* C20: once the map is loaded, the map holds the 'detection-results' source
\* with the 'detection-layer' and 'detection-layer-outline' layers exactly
\* when detectionResults is non-null, the data of the source being
\* detectionResults; the overlay effect has never added a source or a layer
\* whose id was present, nor removed the source while a layer used it.
C20_OverlayConsistent ==
    /\ mapFaults = {}
    /\ mapLoaded =>
          IF detectionResults # Null
          THEN /\ mapSource = [id |-> "detection-results", data |-> detectionResults]
               /\ mapLayers = {"detection-layer", "detection-layer-outline"}
          ELSE /\ mapSource = Null
               /\ mapLayers = {}
    /\ ~mapLoaded => (mapSource = Null /\ mapLayers = {})

\* The overlay of the second detection has been replaced by the results of
\* the first, of another view, selected from the history.
C20_Witness ==
    /\ lastOp.op = "SelectCapture"
    /\ Len(capturedImages) = 2
    /\ capturedImages[1].results # capturedImages[2].results
    /\ capturedImages[2].detectionCount = 1
    /\ detectionResults = capturedImages[2].results
    /\ mapSource # Null
    /\ mapSource.data = capturedImages[2].results
    /\ mapLayers = {"detection-layer", "detection-layer-outline"}

\* The pixels of the corners of a w x h image, as a closed path from the
\* top-left corner clockwise: what the ring of a feature that covers the
\* whole captured region is drawn as.
ImageOutline(w, h) ==
    << [x |-> Num(0), y |-> Num(0)], [x |-> Num(w), y |-> Num(0)],
       [x |-> Num(w), y |-> Num(h)], [x |-> Num(0), y |-> Num(h)],
       [x |-> Num(0), y |-> Num(0)] >>

\* C21: Save Image draws only the results of the previewed capture: when
\* the previewed image has a history entry, the polygons drawn are those of
\* that entry's results (one per feature here, each on the outline of the
\* image, since a feature covers the region of its own capture); when it has
\* none, the plain captured image is saved, with no polygon and no legend,
\* whatever detectionResults holds.
C21_SaveDrawsOwnResults ==
    (lastOp.op = "handleSaveImage" /\ download # Null)
        => LET own == {i \in 1..Len(capturedImages) :
                          capturedImages[i].image = previewImage}
           IN  IF own = {}
               THEN /\ download.name = "map-capture"
                    /\ download.image = previewImage
                    /\ download.ops = << >>
               ELSE /\ download.image = previewImage
                    /\ \E i \in own :
                          Len(Polygons(download.ops)) = capturedImages[i].detectionCount
                    /\ \A k \in 1..Len(Polygons(download.ops)) :
                          Polygons(download.ops)[k].path =
                              ImageOutline(previewImage.width, previewImage.height)

\* C22: in every reachable state previewImage is null exactly when
\* previewBounds is null, and showPreview implies that both are set; after
\* Cancel all three are reset; after a history selection previewImage and
\* previewBounds are the image and the bounds of one entry.
C22_PreviewConsistent ==
    /\ (previewImage = Null) = (previewBounds = Null)
    /\ showPreview => (previewImage # Null /\ previewBounds # Null)
    /\ lastOp.op = "handleCancelPreview"
          => (previewImage = Null /\ previewBounds = Null /\ ~showPreview)
    /\ lastOp.op = "SelectCapture"
          => /\ showPreview
             /\ \E i \in 1..Len(capturedImages) :
                   /\ previewImage = capturedImages[i].image
                   /\ previewBounds = capturedImages[i].bounds

\* The older of two captures of different views has been re-opened from the
\* history, the map being elsewhere.
C22_Witness ==
    /\ lastOp.op = "SelectCapture"
    /\ showPreview
    /\ Len(capturedImages) = 2
    /\ capturedImages[1].bounds # capturedImages[2].bounds
    /\ previewImage = capturedImages[2].image
    /\ previewBounds = capturedImages[2].bounds
    /\ previewBounds # getMapBounds(mapCenter, mapZoom)

=============================================================================
